---- MODULE Spec2Model ----
(***************************************************************************)
(* Model of app.py: the clinic receipt recorder (Flask handlers, the       *)
(* config.json organization profile, the receipts table) and the PDF       *)
(* document assembled by receipt_pdf.                                      *)
(*                                                                         *)
(* Text that carries data is a sequence of one-character strings, so that  *)
(* strip, replace, join, int(), float() and the number formatting are      *)
(* computed character by character.  Fixed labels are one-token sequences. *)
(***************************************************************************)
EXTENDS Integers, Sequences, FiniteSets, TLC

VARIABLES
    config,     \* contents of config.json ("{}" when the file is absent)
    receipts,   \* rows of the receipts table, row i has primary key i
    now,        \* wall clock
    request,    \* the request handled last
    response    \* the response it got

vars == <<config, receipts, now, request, response>>

(******************************* bounds ************************************)
MaxReceipts == 2
MaxRenderReceipts == 1
MaxClock == 2

(************************ Python values and built-ins **********************)
None == <<"None">>
NoneInt == [none |-> TRUE, val |-> 0]
EmptyDict == [k \in {} |-> <<>>]

get(d, k, default) == IF k \in DOMAIN d THEN d[k] ELSE default

Truthy(v) == v # None /\ v # <<>>

Or(v, d) == IF Truthy(v) THEN v ELSE d

Whitespace == {" ", "\n", "\t", "\r"}

RECURSIVE lstrip(_)
lstrip(s) == IF s # <<>> /\ Head(s) \in Whitespace THEN lstrip(Tail(s)) ELSE s

RECURSIVE rstrip(_)
rstrip(s) ==
    IF s # <<>> /\ s[Len(s)] \in Whitespace
    THEN rstrip(SubSeq(s, 1, Len(s) - 1))
    ELSE s

strip(s) == rstrip(lstrip(s))

RECURSIVE replace(_, _, _)
replace(s, old, new) ==
    IF s = <<>> THEN <<>>
    ELSE (IF Head(s) = old THEN new ELSE <<Head(s)>>) \o replace(Tail(s), old, new)

RECURSIVE join(_, _)
join(sep, xs) ==
    IF xs = <<>> THEN <<>>
    ELSE IF Len(xs) = 1 THEN xs[1]
    ELSE xs[1] \o sep \o join(sep, Tail(xs))

DigitChars == <<"0", "1", "2", "3", "4", "5", "6", "7", "8", "9">>

IsDigit(c) == \E i \in 1..10 : DigitChars[i] = c

DigitVal(c) == (CHOOSE i \in 1..10 : DigitChars[i] = c) - 1

AllDigits(s) == \A i \in 1..Len(s) : IsDigit(s[i])

RECURSIVE DigitsVal(_)
DigitsVal(s) ==
    IF s = <<>> THEN 0
    ELSE 10 * DigitsVal(SubSeq(s, 1, Len(s) - 1)) + DigitVal(s[Len(s)])

RECURSIVE NatStr(_)
NatStr(n) ==
    IF n < 10 THEN <<DigitChars[n + 1]>>
    ELSE NatStr(n \div 10) \o <<DigitChars[(n % 10) + 1]>>

str(n) == IF n < 0 THEN <<"-">> \o NatStr(-n) ELSE NatStr(n)

Signed(s) == s # <<>> /\ Head(s) \in {"+", "-"}

Unsigned(s) == IF Signed(s) THEN Tail(s) ELSE s

\* to_int: int(v), or None when int() raises (None, "", "3.5", "abc")
to_int(v) ==
    IF v = None THEN NoneInt
    ELSE
        LET s == strip(v)
            d == Unsigned(s)
        IN  IF d # <<>> /\ AllDigits(d)
            THEN [none |-> FALSE,
                  val |-> IF Signed(s) /\ Head(s) = "-" THEN -DigitsVal(d) ELSE DigitsVal(d)]
            ELSE NoneInt

(* A float is finite (a count of thousandths, which the inputs of the model *)
(* never exceed in precision), infinite, or not a number.                   *)
Float(kind, neg, milli) == [kind |-> kind, neg |-> neg, milli |-> milli]

Zero == Float("fin", FALSE, 0)

Lower(c) ==
    IF c = "I" THEN "i" ELSE IF c = "N" THEN "n" ELSE IF c = "F" THEN "f"
    ELSE IF c = "A" THEN "a" ELSE c

Lowered(s) == [i \in 1..Len(s) |-> Lower(s[i])]

DotAt(s) == IF \E i \in 1..Len(s) : s[i] = "."
            THEN CHOOSE i \in 1..Len(s) : s[i] = "." /\ \A j \in 1..(i - 1) : s[j] # "."
            ELSE 0

Scale3(f) ==
    IF Len(f) = 0 THEN 0
    ELSE IF Len(f) = 1 THEN 100 * DigitsVal(f)
    ELSE IF Len(f) = 2 THEN 10 * DigitsVal(f)
    ELSE DigitsVal(SubSeq(f, 1, 3))

\* to_float: float(v), or the default 0.0 when float() raises
to_float(v) ==
    IF v = None THEN Zero
    ELSE
        LET s == strip(v)
            neg == Signed(s) /\ Head(s) = "-"
            d == Unsigned(s)
            p == DotAt(d)
            ip == IF p = 0 THEN d ELSE SubSeq(d, 1, p - 1)
            fp == IF p = 0 THEN <<>> ELSE SubSeq(d, p + 1, Len(d))
        IN  IF Lowered(d) = <<"i", "n", "f">> THEN Float("inf", neg, 0)
            ELSE IF Lowered(d) = <<"n", "a", "n">> THEN Float("nan", neg, 0)
            ELSE IF AllDigits(ip) /\ AllDigits(fp) /\ Len(ip) + Len(fp) > 0
                 THEN Float("fin", neg, 1000 * DigitsVal(ip) + Scale3(fp))
                 ELSE Zero

\* round to hundredths; a tie (x.xx5) is exact in binary only for eighths,
\* where the formatting rounds half to even
Cents(milli) ==
    LET q == milli \div 10
        r == milli % 10
    IN  IF r < 5 THEN q
        ELSE IF r > 5 THEN q + 1
        ELSE IF q % 2 = 0 THEN q ELSE q + 1

Pad(n, w) ==
    LET s == NatStr(n)
    IN  [i \in 1..(w - Len(s)) |-> "0"] \o s

RECURSIVE Grouped(_)
Grouped(n) ==
    IF n < 1000 THEN NatStr(n)
    ELSE Grouped(n \div 1000) \o <<",">> \o Pad(n % 1000, 3)

\* variant: f"{x:.2f}", no thousands separator
FormatAmountPlain(x) ==
    IF x.kind = "fin"
    THEN LET c == Cents(x.milli)
         IN  (IF x.neg THEN <<"-">> ELSE <<>>)
             \o NatStr(c \div 100) \o <<".">> \o Pad(c % 100, 2)
    ELSE (IF x.neg THEN <<"-">> ELSE <<>>)
         \o (IF x.kind = "inf" THEN <<"i", "n", "f">> ELSE <<"n", "a", "n">>)

\* f"{x:,.2f}"
FormatAmount(x) ==
    IF x.kind = "fin"
    THEN LET c == Cents(x.milli)
         IN  (IF x.neg THEN <<"-">> ELSE <<>>)
             \o Grouped(c \div 100) \o <<".">> \o Pad(c % 100, 2)
    ELSE (IF x.neg THEN <<"-">> ELSE <<>>)
         \o (IF x.kind = "inf" THEN <<"i", "n", "f">> ELSE <<"n", "a", "n">>)

\* created_at.strftime("%Y-%m-%d %H:%M"); the clock counts half minutes
\* from midnight of the day the model starts on
strftime(t) ==
    LET m == (t * 30) \div 60
    IN  <<"2", "0", "2", "5", "-", "0", "1", "-", "0", "1", " ">>
        \o Pad(m \div 60, 2) \o <<":">> \o Pad(m % 60, 2)

(**************************** the PDF document *****************************)
Paragraph(text, style) ==
    [kind |-> "Paragraph", text |-> text, style |-> <<style>>,
     rows |-> <<>>, cols |-> <<>>, h |-> 0]

Spacer(w, h) ==
    [kind |-> "Spacer", text |-> <<>>, style |-> <<>>,
     rows |-> <<>>, cols |-> <<>>, h |-> h]

\* colWidths in mm, 0 for None (a flexible column)
Table(rows, cols, style) ==
    [kind |-> "Table", text |-> <<>>, style |-> style,
     rows |-> rows, cols |-> cols, h |-> 0]

BR == <<"<", "b", "r", "/", ">">>

Bold(s) == <<"<", "b", ">">> \o s \o <<"<", "/", "b", ">">>

NonEmpty(x) == x # <<>>

\* contact = " ".join(x for x in [r.org_phone or "", r.org_email or ""] if x).strip()
ContactLine(r) ==
    strip(join(<<" ">>,
               SelectSeq(<<Or(r.org_phone, <<>>), Or(r.org_email, <<>>)>>, NonEmpty)))

\* variant: line breaks of the address collapsed to spaces
AddressMarkupFlat(r) == replace(r.org_address, "\n", <<" ">>)

AddressMarkup(r) == replace(r.org_address, "\n", BR)

MetaLines(r) ==
    (IF Truthy(r.org_address) THEN <<AddressMarkup(r)>> ELSE <<>>)
    \o (IF ContactLine(r) # <<>> THEN <<ContactLine(r)>> ELSE <<>>)

Header(r) ==
    <<Paragraph(Bold(r.org_name), "Title")>>
    \o (IF MetaLines(r) # <<>>
        THEN <<Paragraph(join(BR, MetaLines(r)), "Normal")>>
        ELSE <<>>)
    \o <<Spacer(1, 8)>>

MetaTable(r) ==
    Table(<< <<<<"Receipt Date">>, strftime(r.created_at)>>,
             <<<<"Registration No.">>, Or(r.registration_no, <<"-">>)>> >>,
          <<40, 0>>, <<"BOX", "INNERGRID", "VALIGN MIDDLE">>)

\* variant: the values as stored, without the "-" fallback
ClientTableRaw(r) ==
    Table(<< <<<<"Name">>, r.name>>,
             <<<<"Guardian">>, IF r.guardian = None THEN <<>> ELSE r.guardian>>,
             <<<<"Gender">>, IF r.gender = None THEN <<>> ELSE r.gender>>,
             <<<<"Age">>, IF r.age.none THEN <<>> ELSE str(r.age.val)>>,
             <<<<"Address">>, IF r.address = None THEN <<>> ELSE r.address>>,
             <<<<"Phone">>, IF r.phone = None THEN <<>> ELSE r.phone>>,
             <<<<"Consultant">>, IF r.consultant = None THEN <<>> ELSE r.consultant>> >>,
          <<35, 0>>, <<"BOX", "INNERGRID", "VALIGN TOP">>)

ClientTable(r) ==
    Table(<< <<<<"Name">>, r.name>>,
             <<<<"Guardian">>, Or(r.guardian, <<"-">>)>>,
             <<<<"Gender">>, Or(r.gender, <<"-">>)>>,
             <<<<"Age">>, IF ~r.age.none THEN str(r.age.val) ELSE <<"-">>>>,
             <<<<"Address">>, Or(r.address, <<"-">>)>>,
             <<<<"Phone">>, Or(r.phone, <<"-">>)>>,
             <<<<"Consultant">>, Or(r.consultant, <<"-">>)>> >>,
          <<35, 0>>, <<"BOX", "INNERGRID", "VALIGN TOP">>)

ItemsTable(r) ==
    Table(<< <<<<"Sl. No">>, <<"Particulars">>, <<"Amount (INR)">>>>,
             <<<<"1">>, r.item_desc, FormatAmount(r.amount)>> >>,
          <<20, 0, 40>>, <<"BOX", "INNERGRID", "BACKGROUND lightgrey", "ALIGN RIGHT">>)

TotalsTable(r) ==
    Table(<< <<<<"Paid Amount">>, <<"I", "N", "R", " ">> \o FormatAmount(r.paid_amount)>> >>,
          <<0, 55>>, <<"ALIGN RIGHT", "FONTSIZE 12">>)

\* elems, as receipt_pdf appends them
Elems(r) ==
    Header(r)
    \o <<MetaTable(r), Spacer(1, 10)>>
    \o <<ClientTable(r), Spacer(1, 12)>>
    \o <<ItemsTable(r), Spacer(1, 6)>>
    \o <<TotalsTable(r), Spacer(1, 14)>>
    \o <<Paragraph(<<"This is a computer generated receipt.">>, "Italic")>>

\* doc.build(elems) into buf: SimpleDocTemplate is built with its defaults,
\* under which the document information dictionary is stamped with the
\* time of the build
build(elems, t) == [elems |-> elems, CreationDate |-> t]

(******************************* responses *********************************)
NoFlash == <<>>

Flash(msg, category) == <<msg, category>>

Redirect(endpoint, rid, flashed) ==
    [kind |-> "redirect", to |-> endpoint, rid |-> rid, flash |-> flashed, body |-> <<>>]

Html(template, context) ==
    [kind |-> "html", to |-> template, rid |-> 0, flash |-> NoFlash, body |-> context]

SendFile(buf, download_name) ==
    [kind |-> "pdf", to |-> download_name, rid |-> 0, flash |-> NoFlash, body |-> buf]

NoForm == EmptyDict

Req(endpoint, rid, form) == [endpoint |-> endpoint, rid |-> rid, form |-> form]

(**************************** config.json **********************************)
load_config == config

Configured == load_config # EmptyDict

\* the before_request guard, for every endpoint but setup_get and setup_post
ensure_config(endpoint, rid, form) ==
    /\ ~Configured
    /\ request' = Req(endpoint, rid, form)
    /\ response' = Redirect("setup_get", 0, NoFlash)
    /\ UNCHANGED <<config, receipts, now>>

SetupCfg(form) ==
    [org_name |-> strip(get(form, "org_name", <<>>)),
     org_address |-> strip(get(form, "org_address", <<>>)),
     org_phone |-> strip(get(form, "org_phone", <<>>)),
     org_email |-> strip(get(form, "org_email", <<>>))]

(******************************** handlers *********************************)
setup_get ==
    /\ request' = Req("setup_get", 0, NoForm)
    /\ response' = Html("setup.html", [cfg |-> load_config])
    /\ UNCHANGED <<config, receipts, now>>

\* variant: the profile as a live reference, saving it rewrites the receipts
setup_post_live(form) ==
    LET cfg == SetupCfg(form)
    IN  /\ request' = Req("setup_post", 0, form)
        /\ IF cfg.org_name = <<>>
           THEN /\ response' = Redirect("setup_get", 0,
                                  Flash("Organization/Clinic name is required.", "error"))
                /\ UNCHANGED <<config, receipts>>
           ELSE /\ config' = cfg
                /\ receipts' = [i \in 1..Len(receipts) |->
                                  [receipts[i] EXCEPT !.org_name = cfg.org_name,
                                                      !.org_address = cfg.org_address,
                                                      !.org_phone = cfg.org_phone,
                                                      !.org_email = cfg.org_email]]
                /\ response' = Redirect("index", 0,
                                  Flash("Organization settings saved.", "success"))
        /\ UNCHANGED now

setup_post(form) ==
    LET cfg == SetupCfg(form)
    IN  /\ request' = Req("setup_post", 0, form)
        /\ IF cfg.org_name = <<>>
           THEN /\ response' = Redirect("setup_get", 0,
                                  Flash("Organization/Clinic name is required.", "error"))
                /\ UNCHANGED config
           ELSE /\ config' = cfg
                /\ response' = Redirect("index", 0,
                                  Flash("Organization settings saved.", "success"))
        /\ UNCHANGED <<receipts, now>>

Ids == 1..Len(receipts)

\* the orders the query may return: created_at descending, ties in any order
Listings ==
    {s \in [1..Len(receipts) -> Ids] :
        /\ \A i, j \in 1..Len(receipts) : i # j => s[i] # s[j]
        /\ \A i, j \in 1..Len(receipts) :
              i < j => receipts[s[i]].created_at >= receipts[s[j]].created_at}

Limit(s, n) == SubSeq(s, 1, IF Len(s) < n THEN Len(s) ELSE n)

index ==
    \/ ensure_config("index", 0, NoForm)
    \/ /\ Configured
       /\ request' = Req("index", 0, NoForm)
       /\ \E s \in Listings :
             response' = Html("index.html",
                              [receipts |-> [i \in 1..Len(Limit(s, 12)) |-> receipts[s[i]]],
                               cfg |-> load_config])
       /\ UNCHANGED <<config, receipts, now>>

\* variant: the client name taken without strip()
NewReceipt_nostrip(cfg, form) ==
    [org_name |-> get(cfg, "org_name", <<>>),
     org_address |-> get(cfg, "org_address", None),
     org_phone |-> get(cfg, "org_phone", None),
     org_email |-> get(cfg, "org_email", None),
     registration_no |-> get(form, "registration_no", None),
     name |-> get(form, "name", <<>>),
     guardian |-> get(form, "guardian", None),
     address |-> get(form, "address", None),
     gender |-> get(form, "gender", None),
     age |-> to_int(get(form, "age", None)),
     phone |-> get(form, "phone", None),
     consultant |-> get(form, "consultant", None),
     item_desc |-> get(form, "item_desc", <<"Consultation Fees">>),
     amount |-> IF "amount" \in DOMAIN form THEN to_float(form["amount"]) ELSE Zero,
     paid_amount |-> IF "paid_amount" \in DOMAIN form
                     THEN to_float(form["paid_amount"]) ELSE Zero]

NewReceipt(cfg, form) ==
    [org_name |-> get(cfg, "org_name", <<>>),
     org_address |-> get(cfg, "org_address", None),
     org_phone |-> get(cfg, "org_phone", None),
     org_email |-> get(cfg, "org_email", None),
     registration_no |-> get(form, "registration_no", None),
     name |-> strip(get(form, "name", <<>>)),
     guardian |-> get(form, "guardian", None),
     address |-> get(form, "address", None),
     gender |-> get(form, "gender", None),
     age |-> to_int(get(form, "age", None)),
     phone |-> get(form, "phone", None),
     consultant |-> get(form, "consultant", None),
     item_desc |-> get(form, "item_desc", <<"Consultation Fees">>),
     amount |-> IF "amount" \in DOMAIN form THEN to_float(form["amount"]) ELSE Zero,
     paid_amount |-> IF "paid_amount" \in DOMAIN form
                     THEN to_float(form["paid_amount"]) ELSE Zero]

\* variant: the new row stored in front of the others, which are renumbered
Inserted_renumbering(r) ==
    LET row(k, t, x) == [f \in (DOMAIN x) \cup {"id", "created_at"} |->
                            IF f = "id" THEN k ELSE IF f = "created_at" THEN t ELSE x[f]]
    IN  <<row(1, now, r)>>
        \o [i \in 1..Len(receipts) |-> [receipts[i] EXCEPT !.id = i + 1]]

\* db.add(r); db.commit(): the table assigns the key and the creation time
Inserted(r) ==
    Append(receipts,
           [f \in (DOMAIN r) \cup {"id", "created_at"} |->
               IF f = "id" THEN Len(receipts) + 1
               ELSE IF f = "created_at" THEN now
               ELSE r[f]])

create(form) ==
    \/ ensure_config("create", 0, form)
    \/ /\ Configured
       /\ request' = Req("create", 0, form)
       /\ LET r == NewReceipt(load_config, form)
          IN  IF r.name = <<>>
              THEN /\ response' = Redirect("index", 0, Flash("Name is required.", "error"))
                   /\ UNCHANGED receipts
              ELSE /\ receipts' = Inserted(r)
                   /\ response' = Redirect("preview", Len(receipts) + 1,
                                           Flash("Receipt saved.", "success"))
       /\ UNCHANGED <<config, now>>

preview(rid) ==
    \/ ensure_config("preview", rid, NoForm)
    \/ /\ Configured
       /\ request' = Req("preview", rid, NoForm)
       /\ IF rid \notin Ids
          THEN response' = Redirect("index", 0, Flash("Receipt not found.", "error"))
          ELSE response' = Html("receipt.html", [r |-> receipts[rid]])
       /\ UNCHANGED <<config, receipts, now>>

\* variant: the export stamps the row it printed
receipt_pdf_stamping(rid) ==
    \/ ensure_config("receipt_pdf", rid, NoForm)
    \/ /\ Configured
       /\ request' = Req("receipt_pdf", rid, NoForm)
       /\ IF rid \notin Ids
          THEN /\ response' = Redirect("index", 0, Flash("Receipt not found.", "error"))
               /\ UNCHANGED receipts
          ELSE LET r == receipts[rid]
               IN  /\ response' = SendFile(build(Elems(r), now),
                                           <<"receipt_">> \o str(r.id) \o <<".pdf">>)
                   /\ receipts' = [receipts EXCEPT ![rid].created_at = now]
       /\ UNCHANGED <<config, now>>

\* variant: no check of the lookup's result, an unknown id gets an empty document
receipt_pdf_unchecked(rid) ==
    \/ ensure_config("receipt_pdf", rid, NoForm)
    \/ /\ Configured
       /\ request' = Req("receipt_pdf", rid, NoForm)
       /\ IF rid \notin Ids
          THEN response' = SendFile(build(<<>>, now), <<"receipt_">> \o str(rid) \o <<".pdf">>)
          ELSE LET r == receipts[rid]
               IN  response' = SendFile(build(Elems(r), now),
                                        <<"receipt_">> \o str(r.id) \o <<".pdf">>)
       /\ UNCHANGED <<config, receipts, now>>

receipt_pdf(rid) ==
    \/ ensure_config("receipt_pdf", rid, NoForm)
    \/ /\ Configured
       /\ request' = Req("receipt_pdf", rid, NoForm)
       /\ IF rid \notin Ids
          THEN response' = Redirect("index", 0, Flash("Receipt not found.", "error"))
          ELSE LET r == receipts[rid]
               IN  response' = SendFile(build(Elems(r), now),
                                        <<"receipt_">> \o str(r.id) \o <<".pdf">>)
       /\ UNCHANGED <<config, receipts, now>>

\* time passes between requests
Tick ==
    /\ now < MaxClock
    /\ now' = now + 1
    /\ UNCHANGED <<config, receipts, request, response>>

(********************************* inputs **********************************)
SetupForms ==
    { [org_name |-> <<" ", "A", " ">>, org_address |-> <<"x", "\n", "y", " ">>,
       org_phone |-> <<"1">>, org_email |-> <<"e">>],
      [org_name |-> <<"B">>],
      [org_name |-> <<" ">>, org_phone |-> <<"1">>],
      [org_address |-> <<"x">>] }

FullForm ==
    [registration_no |-> <<"7">>, name |-> <<" ", "N", " ">>, guardian |-> <<"g">>,
     address |-> <<"x">>, gender |-> <<"F">>, age |-> <<"3", "4">>, phone |-> <<"9">>,
     consultant |-> <<"c">>, item_desc |-> <<"d">>,
     amount |-> <<"1", "2", "3", "4", ".", "5">>, paid_amount |-> <<"0">>]

CreateForms ==
    { FullForm,
      [name |-> <<"M">>],
      [name |-> <<" ", "\t">>, guardian |-> <<"g">>],
      [guardian |-> <<"g">>] }

Rids == 0..(MaxReceipts + 1)

\* every combination of present and absent address, phone and email
RenderSetupForms ==
    { [org_name |-> <<"A">>, org_address |-> a, org_phone |-> p, org_email |-> e] :
        a \in {<<>>, <<"x">>, <<"x", "\n", "y", "\n", "\n", "z">>},
        p \in {<<" ">>, <<" ", "1">>},
        e \in {<<>>, <<"e", " ">>} }

OptionalFields == {"registration_no", "guardian", "gender", "address", "phone", "consultant"}

OptForms ==
    { [f \in OptionalFields \cup {"name"} |-> IF f = "name" THEN <<"N">> ELSE v] :
        v \in {<<>>, <<"v">>, <<" ">>} }
    \cup { [f \in {"name", k} |-> IF f = "name" THEN <<"N">> ELSE <<"v">>] :
             k \in OptionalFields }
    \cup { [f \in OptionalFields \cup {"name"} |->
               IF f = "name" THEN <<"N">> ELSE IF f = k THEN <<>> ELSE <<"v">>] :
             k \in OptionalFields }

AgeForms ==
    { [name |-> <<"N">>, age |-> a] :
        a \in {<<>>, <<"0">>, <<" ", "3", "4">>, <<"3", ".", "5">>, <<"-", "1">>} }

AmountTexts ==
    { <<>>, <<"0">>, <<"1", "2", "3", "4", ".", "5">>, <<"5", "0", "0", ".", "0">>,
      <<"9", "9", "9", ".", "9", "9", "9">>, <<"0", ".", "1", "2", "5">>,
      <<"0", ".", "3", "7", "5">>, <<"1", "2", "3", "4", "5", "6", "7">>,
      <<"1", "0", "0", "0">>, <<".", "5">>, <<"-", "5">>, <<"i", "n", "f">>,
      <<"a", "b", "c">> }

AmountForms ==
    { [name |-> <<"N">>, amount |-> a, paid_amount |-> a] : a \in AmountTexts }
    \cup { [name |-> <<"N">>, item_desc |-> <<>>, amount |-> <<"1", "0">>] }

RenderForms == OptForms \cup AgeForms \cup AmountForms \cup {[name |-> <<"N">>], FullForm}

RenderRids == 0..(MaxRenderReceipts + 1)

\* config.json as found at the first start: missing or "{}", or written by hand
DeployedConfigs ==
    { EmptyDict,
      [org_address |-> <<"x">>],
      [org_name |-> <<>>, org_phone |-> <<"1">>],
      [org_name |-> <<"A">>] }

(***************************** specifications ******************************)
NoRequest == Req("none", 0, NoForm)

NoResponse == [kind |-> "none", to |-> "", rid |-> 0, flash |-> NoFlash, body |-> <<>>]

\* a fresh installation: no config.json, an empty table
Init ==
    /\ config = EmptyDict
    /\ receipts = <<>>
    /\ now = 0
    /\ request = NoRequest
    /\ response = NoResponse

SetupGet == setup_get

SetupPost == \E form \in SetupForms : setup_post(form)

Index == index

Create == \E form \in CreateForms : Len(receipts) < MaxReceipts /\ create(form)

Preview == \E rid \in Rids : preview(rid)

ReceiptPdf == \E rid \in Rids : receipt_pdf(rid)

Next ==
    \/ SetupGet
    \/ SetupPost
    \/ Index
    \/ Create
    \/ Preview
    \/ ReceiptPdf
    \/ Tick

Spec == Init /\ [][Next]_vars

\* an installation whose config.json was put in place by hand
InitDeployed ==
    /\ config \in DeployedConfigs
    /\ receipts = <<>>
    /\ now = 0
    /\ request = NoRequest
    /\ response = NoResponse

SpecDeployed == InitDeployed /\ [][Next]_vars

\* the renderer over a wide range of records: the profile is set up once,
\* with any of the combinations of its optional fields, the receipts are any
\* that create stores
RenderSetup == \E form \in RenderSetupForms : ~Configured /\ setup_post(form)

RenderCreate ==
    \E form \in RenderForms : Len(receipts) < MaxRenderReceipts /\ create(form)

RenderPdf == \E rid \in RenderRids : receipt_pdf(rid)

NextRender ==
    \/ RenderSetup
    \/ RenderCreate
    \/ RenderPdf

SpecRender == Init /\ [][NextRender]_vars

(************************* reading a delivered PDF *************************)
IsPdf == response.kind = "pdf"

Found == request.rid \in Ids

\* the row a delivered PDF was made from
Shown == receipts[request.rid]

DocElems == response.body.elems

IsTable(e) == e.kind = "Table"

IsParagraph(e) == e.kind = "Paragraph"

\* meta table, client table, line-item table, totals
DocTables == SelectSeq(DocElems, IsTable)

\* title, the meta paragraph when there is one, the footer note
DocParagraphs == SelectSeq(DocElems, IsParagraph)

HasMeta == Len(DocParagraphs) = 3

MetaText == DocParagraphs[2].text

Cell(t, row, col) == DocTables[t].rows[row][col]

Absent(v) == v = None \/ v = <<>>

NewlineAt(s) ==
    IF \E i \in 1..Len(s) : s[i] = "\n"
    THEN CHOOSE i \in 1..Len(s) : s[i] = "\n" /\ \A j \in 1..(i - 1) : s[j] # "\n"
    ELSE 0

RECURSIVE SplitLines(_)
SplitLines(s) ==
    IF NewlineAt(s) = 0 THEN <<s>>
    ELSE <<SubSeq(s, 1, NewlineAt(s) - 1)>> \o SplitLines(SubSeq(s, NewlineAt(s) + 1, Len(s)))

BreakAt(s) ==
    LET at(i) == i + 4 <= Len(s) /\ SubSeq(s, i, i + 4) = BR
    IN  IF \E i \in 1..Len(s) : at(i)
        THEN CHOOSE i \in 1..Len(s) : at(i) /\ \A j \in 1..(i - 1) : ~at(j)
        ELSE 0

RECURSIVE SplitBreaks(_)
SplitBreaks(s) ==
    IF BreakAt(s) = 0 THEN <<s>>
    ELSE <<SubSeq(s, 1, BreakAt(s) - 1)>> \o SplitBreaks(SubSeq(s, BreakAt(s) + 5, Len(s)))

\* digits in groups of three from the right, a point, two digits
IsMoney(s) ==
    /\ Len(s) >= 4
    /\ s[Len(s) - 2] = "."
    /\ IsDigit(s[Len(s) - 1]) /\ IsDigit(s[Len(s)])
    /\ LET ip == SubSeq(s, 1, Len(s) - 3)
       IN  /\ IsDigit(ip[1])
           /\ Len(ip) > 1 => ip[1] # "0"
           /\ \A i \in 1..Len(ip) :
                 IF (Len(ip) - i + 1) % 4 = 0 THEN ip[i] = "," ELSE IsDigit(ip[i])

\* the hundredths a money text stands for
MoneyCents(s) == DigitsVal(SelectSeq(s, IsDigit))

ShowsAmount(s, x) ==
    /\ IsMoney(s)
    /\ 10 * MoneyCents(s) - x.milli \in -5..5

INR == <<"I", "N", "R", " ">>

(********************************* claims **********************************)

\* C1: a receipt whose organization name or client name is empty or absent
\* is never delivered as a PDF: receipt_pdf fails instead of printing a
\* blank title or a blank Name row.
C1_MissingRequiredFieldFails ==
    (request.endpoint = "receipt_pdf" /\ Configured /\ Found
        /\ (Absent(Shown.org_name) \/ Absent(Shown.name)))
    => ~IsPdf

OrgFields == {"org_name", "org_address", "org_phone", "org_email"}

OrgOf(r) == [f \in OrgFields |-> r[f]]

\* C2: the organization fields of a receipt are a snapshot: a new receipt
\* gets the values the profile holds when it is created, no step changes
\* the organization fields of a stored receipt, and preview and receipt_pdf
\* show the stored values, whatever the profile has become.
C2_OrgSnapshot ==
    [][ /\ \A i \in 1..Len(receipts) :
              /\ i <= Len(receipts')
              /\ OrgOf(receipts'[i]) = OrgOf(receipts[i])
        /\ Len(receipts') > Len(receipts) =>
              /\ Len(receipts') = Len(receipts) + 1
              /\ OrgOf(receipts'[Len(receipts')]) = OrgOf(config)
        /\ response'.kind = "pdf" =>
              /\ request'.rid \in 1..Len(receipts)
              /\ response'.body.elems[1].text = Bold(receipts[request'.rid].org_name)
        /\ (response'.kind = "html" /\ response'.to = "receipt.html") =>
              /\ request'.rid \in 1..Len(receipts)
              /\ OrgOf(response'.body.r) = OrgOf(receipts[request'.rid])
      ]_vars

C2_Witness ==
    /\ IsPdf
    /\ Configured
    /\ Shown.org_name # config.org_name
    /\ Shown.org_address # config.org_address
    /\ DocElems[1].text = Bold(Shown.org_name)

ClientPlaceholders ==
    LET r == Shown
    IN  /\ Absent(r.registration_no) => Cell(1, 2, 2) = <<"-">>
        /\ Absent(r.guardian) => Cell(2, 2, 2) = <<"-">>
        /\ Absent(r.gender) => Cell(2, 3, 2) = <<"-">>
        /\ r.age.none => Cell(2, 4, 2) = <<"-">>
        /\ Absent(r.address) => Cell(2, 5, 2) = <<"-">>
        /\ Absent(r.phone) => Cell(2, 6, 2) = <<"-">>
        /\ Absent(r.consultant) => Cell(2, 7, 2) = <<"-">>
        /\ Cell(1, 2, 2) # <<>>
        /\ \A row \in 2..7 : Cell(2, row, 2) # <<>>

OrgPlaceholders ==
    LET r == Shown
    IN  \A f \in {"org_address", "org_phone", "org_email"} :
            Absent(r[f]) => (HasMeta /\ \E i \in 1..Len(MetaText) : MetaText[i] = "-")

\* C3 as stated: every optional field left unset, the organization's address,
\* phone and email included, is printed as "-" in its position.
C3_EveryOptionalPlaceholder == IsPdf => (ClientPlaceholders /\ OrgPlaceholders)

\* C3, amended: every optional receipt or client field left unset
\* (registration number, guardian, gender, age, address, phone, consultant) is
\* printed as "-" in its cell and none of these cells is empty; an unset
\* organization address, phone or email gets no placeholder, it is left out
\* of the header.
C3_ClientPlaceholder ==
    IsPdf =>
        /\ ClientPlaceholders
        /\ HasMeta => \A i \in 1..Len(MetaText) : MetaText[i] # "-"
        /\ (\A f \in {"org_address", "org_phone", "org_email"} : Absent(Shown[f])) => ~HasMeta

C3_Witness ==
    /\ IsPdf
    /\ Shown.registration_no = None /\ Shown.guardian = None /\ Shown.age.none
    /\ Shown.org_address = <<>> /\ Shown.org_phone # <<>>
    /\ HasMeta
    /\ Cell(2, 2, 2) = <<"-">>

\* C4: two exports of the same receipt are the same bytes: the output depends
\* on nothing but the record, in particular not on the time of the export.
C4_RenderDeterministic ==
    [][ (/\ response.kind = "pdf" /\ response'.kind = "pdf"
         /\ request'.rid = request.rid
         /\ request.rid \in 1..Len(receipts)
         /\ receipts'[request.rid] = receipts[request.rid])
        => response'.body = response.body ]_vars

\* C5: receipts are write-once: every step leaves every stored receipt in
\* place with its identifier, its creation time and all its other fields,
\* and the identifier of a row is the one the table gave it when it was made.
C5_WriteOnce ==
    [][ /\ Len(receipts') >= Len(receipts)
        /\ \A i \in 1..Len(receipts) : receipts'[i] = receipts[i]
        /\ \A i \in 1..Len(receipts') :
              /\ receipts'[i].id = i
              /\ receipts'[i].created_at <= now
      ]_vars

C5_Witness ==
    /\ Len(receipts) = 2
    /\ receipts[1].org_name # receipts[2].org_name
    /\ receipts[1].created_at < receipts[2].created_at
    /\ request.endpoint = "setup_post"
    /\ config.org_name # receipts[2].org_name

\* C6: a receipt_pdf request, delivered or not, changes neither the receipts
\* table nor config.json, the only file the program writes.
C6_PdfNoSideEffect ==
    [][ request'.endpoint = "receipt_pdf" => (receipts' = receipts /\ config' = config) ]_vars

C6_Witness ==
    /\ request.endpoint = "receipt_pdf"
    /\ IsPdf
    /\ Shown.created_at < now

\* C7: a non-negative amount is printed in the line-item cell with digits
\* grouped in thousands, two fractional digits and no prefix; the totals cell
\* is "INR " and the paid amount in the same format; 1234.5 is "1,234.50" and
\* a paid amount of 0 is "INR 0.00".
C7_NumericFormat ==
    IsPdf =>
        LET a == Shown.amount
            q == Shown.paid_amount
            totals == Cell(4, 1, 2)
        IN  /\ (a.kind = "fin" /\ ~a.neg) => ShowsAmount(Cell(3, 2, 3), a)
            /\ (q.kind = "fin" /\ ~q.neg) =>
                  /\ Len(totals) > 4
                  /\ SubSeq(totals, 1, 4) = INR
                  /\ ShowsAmount(SubSeq(totals, 5, Len(totals)), q)
            /\ a = Float("fin", FALSE, 1234500) =>
                  Cell(3, 2, 3) = <<"1", ",", "2", "3", "4", ".", "5", "0">>
            /\ q = Zero => totals = INR \o <<"0", ".", "0", "0">>

C7_Witness ==
    /\ IsPdf
    /\ Shown.amount = Float("fin", FALSE, 1234500)
    /\ Shown.paid_amount = Zero
    /\ Cell(3, 2, 3) = <<"1", ",", "2", "3", "4", ".", "5", "0">>

\* what the claim says the contact line is: phone and email with one space
\* between them, or the one that is there
ContactOf(r) ==
    IF Absent(r.org_phone) THEN (IF Absent(r.org_email) THEN <<>> ELSE r.org_email)
    ELSE IF Absent(r.org_email) THEN r.org_phone
    ELSE r.org_phone \o <<" ">> \o r.org_email

\* C8: the meta paragraph is there exactly when the address or the contact
\* line is non-empty; its lines are the lines of the address, one break for
\* each line break of the address, then the contact line, which has no
\* leading or trailing space.
C8_HeaderMeta ==
    IsPdf =>
        LET r == Shown
            contact == ContactOf(r)
            lines == (IF Absent(r.org_address) THEN <<>> ELSE SplitLines(r.org_address))
                     \o (IF contact = <<>> THEN <<>> ELSE <<contact>>)
        IN  /\ HasMeta <=> (~Absent(r.org_address) \/ contact # <<>>)
            /\ HasMeta =>
                  /\ DocElems[2] = DocParagraphs[2]
                  /\ SplitBreaks(MetaText) = lines
            /\ contact # <<>> => (Head(contact) # " " /\ contact[Len(contact)] # " ")

C8_Witness ==
    /\ IsPdf
    /\ Len(SplitLines(Shown.org_address)) = 4
    /\ Shown.org_phone # <<>> /\ Shown.org_email # <<>>
    /\ Len(SplitBreaks(MetaText)) = 5

\* C9: when no stored receipt has the id asked for, preview and receipt_pdf
\* answer with a redirect to the listing and an error notification, and
\* deliver no document.
C9_NotFoundRedirects ==
    (request.endpoint \in {"preview", "receipt_pdf"} /\ Configured /\ ~Found)
    => response = Redirect("index", 0, Flash("Receipt not found.", "error"))

C9_Witness ==
    /\ request.endpoint = "receipt_pdf"
    /\ Configured
    /\ receipts # <<>>
    /\ ~Found
    /\ response.kind = "redirect" /\ response.to = "index"

\* C10: with the profile written by setup_post only, every stored receipt has
\* a non-empty organization name and client name, and a create request made
\* while the profile is empty, or with a name that is empty once stripped,
\* leaves the table as it was.
C10_StoreValid ==
    /\ [](\A i \in 1..Len(receipts) :
             /\ ~Absent(receipts[i].org_name)
             /\ ~Absent(receipts[i].name))
    /\ [][ (/\ request'.endpoint = "create"
            /\ \/ config = EmptyDict
               \/ strip(get(request'.form, "name", <<>>)) = <<>>)
           => receipts' = receipts ]_vars

C10_Witness ==
    /\ request.endpoint = "create"
    /\ Configured
    /\ "name" \in DOMAIN request.form
    /\ request.form["name"] # <<>>
    /\ strip(request.form["name"]) = <<>>
    /\ Len(receipts) = 1
    /\ response = Redirect("index", 0, Flash("Name is required.", "error"))

====
